---- MODULE Spec2Model ----
(***************************************************************************)
(* The lifecycle state machine of the CSI service broker                   *)
(* (csibroker/csibroker.go): Provision, Deprovision, Bind and Unbind run   *)
(* in parallel call contexts against one record store, one plugin per      *)
(* logical service, one process-wide mutex and one "controller probed"     *)
(* flag.  Every remote call of the broker is split into the step that      *)
(* issues it and the step in which the answer arrives, so that calls in    *)
(* flight are states of the model.                                         *)
(***************************************************************************)
EXTENDS Integers, Sequences, FiniteSets, TLC

\* ---------------------------------------------------------------- bounds
\* calls begun over a run of parallel calls
MaxOps == 3
\* calls begun over a run of calls made one after the other
MaxSeqOps == 4

\* the call contexts: two inbound requests are served at the same time
Calls == {1, 2}
NoCall == 0

\* --------------------------------------------------------------- inputs
InstanceIDs == {"i1", "i2"}
BindingIDs == {"b1", "b2"}
\* "" is the missing service id; no service is registered under it
ServiceIDs == {"", "s1", "s2"}
PlanIDs == {"", "p1", "p2"}
OrgGUIDs == {"o1", "o2"}
SpaceGUIDs == {"sp1", "sp2"}
AppGUIDs == {"", "app1", "app2"}
VolumeNames == {"v1", "v2"}
VolumeIds == {"vol1", "vol2"}

\* A JSON value of the bind parameters: a boolean or a string.
JBool(b) == [t |-> "bool", b |-> b, s |-> ""]
JString(s) == [t |-> "string", b |-> FALSE, s |-> s]

\* Raw provision parameters: an undecodable document, or a create-volume
\* request document with its name and its number of volume capabilities.
RawConfig(valid, name, caps) == [valid |-> valid, name |-> name, caps |-> caps]
ProvisionRaw ==
    {RawConfig(FALSE, "", 0), RawConfig(TRUE, "", 1), RawConfig(TRUE, "v1", 0)} \cup
    {RawConfig(TRUE, n, 1) : n \in VolumeNames}

\* Raw bind parameters: none (nil), an undecodable document, or a JSON
\* object; the object is a function from its keys to JSON values.
\* The object is its set of <<key, value>> members.
NoParams == [kind |-> "nil", obj |-> {}]
BadParams == [kind |-> "bad", obj |-> {}]
JObject(o) == [kind |-> "json", obj |-> o]
BindRaw ==
    {NoParams, BadParams} \cup
    {JObject({<<"readonly", v>>}) : v \in {JBool(TRUE), JBool(FALSE), JString("yes")}}

\* --------------------------------------------------------------- errors
OK == "ok"
ErrUnknownService == "unknown service"
ErrProbe == "probe failed"
ErrRawParamsInvalid == "invalid raw params"
ErrNameRequired == "config requires a name"
ErrCapsRequired == "config requires volume_capabilities"
ErrCreateVolume == "create volume failed"
ErrDeleteVolume == "delete volume failed"
ErrInstanceAlreadyExists == "instance already exists"
ErrStoreInstance == "failed to store instance details"
ErrInstanceIDRequired == "volume deletion requires instance ID"
ErrPlanIDRequired == "volume deletion requires plan_id"
ErrServiceIDRequired == "volume deletion requires service_id"
ErrInstanceDoesNotExist == "instance does not exist"
ErrBindingDoesNotExist == "binding does not exist"
ErrBindingAlreadyExists == "binding already exists"
ErrAppGuidNotProvided == "app guid not provided"
ErrJSON == "json decode error"
ErrStore == "store error"
ErrSave == "save failed"

\* ------------------------------------------------------------- requests
Provision == "Provision"
Deprovision == "Deprovision"
Bind == "Bind"
Unbind == "Unbind"

\* One inbound request.  The fields an operation does not take hold "".
Request(op, instanceID, bindingID, serviceID, planID, org, space, app, raw) ==
    [op |-> op, instanceID |-> instanceID, bindingID |-> bindingID,
     serviceID |-> serviceID, planID |-> planID, organizationGUID |-> org,
     spaceGUID |-> space, appGUID |-> app, raw |-> raw]

NoRaw == RawConfig(FALSE, "", 0)
NoRequest == Request("", "", "", "", "", "", "", "", NoRaw)

\* The requests of one operation: a base request and the requests that
\* differ from it in one field; for Provision also one of a second instance
\* and one with no name on a service that is not registered.
Differ(r, base) == Cardinality({f \in DOMAIN base : r[f] # base[f]})

ProvisionBase ==
    Request(Provision, "i1", "", "s1", "p1", "o1", "sp1", "", RawConfig(TRUE, "v1", 1))
ProvisionRequests ==
    {r \in {Request(Provision, "i1", "", s, p, o, sp, "", raw) :
                s \in ServiceIDs, p \in PlanIDs \ {""}, o \in OrgGUIDs,
                sp \in SpaceGUIDs, raw \in ProvisionRaw \ {RawConfig(TRUE, "v2", 1)}} :
        Differ(r, ProvisionBase) <= 1}
    \cup {[ProvisionBase EXCEPT !.instanceID = "i2", !.raw = RawConfig(TRUE, "v2", 1)],
          [ProvisionBase EXCEPT !.serviceID = "", !.raw = RawConfig(TRUE, "", 1)]}

DeprovisionBase == Request(Deprovision, "i1", "", "s1", "p1", "", "", "", NoRaw)
DeprovisionRequests ==
    {r \in {Request(Deprovision, i, "", s, p, "", "", "", NoRaw) :
                i \in InstanceIDs \cup {""}, s \in ServiceIDs, p \in {"", "p1"}} :
        Differ(r, DeprovisionBase) <= 1}

BindBase == Request(Bind, "i1", "b1", "s1", "p1", "", "", "app1", NoParams)
BindRequests ==
    {r \in {Request(Bind, i, "b1", s, "p1", "", "", a, raw) :
                i \in InstanceIDs, s \in ServiceIDs \ {"s2"},
                a \in AppGUIDs, raw \in BindRaw} :
        Differ(r, BindBase) <= 1}

UnbindBase == Request(Unbind, "i1", "b1", "s1", "", "", "", "", NoRaw)
UnbindRequests ==
    {r \in {Request(Unbind, i, b, s, "", "", "", "", NoRaw) :
                i \in InstanceIDs, b \in BindingIDs, s \in ServiceIDs \ {"s2"}} :
        Differ(r, UnbindBase) <= 1}

Requests ==
    ProvisionRequests \cup DeprovisionRequests \cup BindRequests \cup UnbindRequests

\* The requests of the parallel runs: those that decode, and differ from the
\* base request in the instance, the service, the plan or the application.
ParallelRequests ==
    {r \in Requests :
        /\ r.organizationGUID \in {"", "o1"}
        /\ r.spaceGUID \in {"", "sp1"}
        /\ r.bindingID \in {"", "b1"}
        /\ r.op = Provision => r.raw.valid /\ r.raw.name # "" /\ r.raw.caps > 0
        /\ r.op = Deprovision => r.planID # ""
        /\ r.op = Bind => r.raw = NoParams}

\* ---------------------------------------------------------------- state
VARIABLES
    controllerProbed,   \* Broker.controllerProbed
    mutex,              \* Broker.mutex: the call holding it, or NoCall
    instances,          \* the store's instance records, by instance id
    bindings,           \* the store's binding records, by binding id
    scope,              \* per binding record, the instance id it was bound under
    saved,              \* the last Save wrote the records as they are now
    volumes,            \* per service, the plugin's volumes: name -> volume id
    probed,             \* per service, the identity probes answered with success
    pc,                 \* per call, where it stands
    req,                \* per call, its request
    vol,                \* per call, the volume of its plugin request or answer
    res,                \* per call, the named result e
    ret,                \* per call, the value it returns beside e
    log,                \* per call, what it has done so far
    started,            \* calls begun so far
    last                \* the call that returned last, and what it returned

vars == <<controllerProbed, mutex, instances, bindings, scope, saved, volumes,
          probed, pc, req, vol, res, ret, log, started, last>>

EmptyMap == [x \in {} |-> x]
Put(m, k, v) == [x \in DOMAIN m \cup {k} |-> IF x = k THEN v ELSE m[x]]
Remove(m, k) == [x \in DOMAIN m \ {k} |-> m[x]]

NoVolume == [VolumeId |-> ""]
\* What a call has done: the probe and volume RPCs it issued, the Saves it
\* called, the times it took the lock, the failures the plugin or the store
\* answered it with, and whether it issued its volume RPC while another
\* call's was in flight.
NoLog == [probes |-> 0, rpcs |-> 0, saves |-> 0, locks |-> 0, faults |-> 0,
          overlap |-> FALSE]
NoLast == [req |-> NoRequest, res |-> OK, log |-> NoLog]

\* ------------------------------------------------------------- registry
\* The services of the specfile.
Registered == {"s1", "s2"}
\* ServicesRegistry.IdentityClient / ControllerClient / DriverName: the
\* capability of a configured service, or "unknown service".
IdentityClient(serviceID) == IF serviceID \in Registered THEN OK ELSE ErrUnknownService
ControllerClient(serviceID) == IF serviceID \in Registered THEN OK ELSE ErrUnknownService
DriverName(serviceID) == IF serviceID \in Registered THEN OK ELSE ErrUnknownService

\* ---------------------------------------------------------------- store
\* brokerstore.Store, as the broker consumes it.
RetrieveInstanceDetails(id) == IF id \in DOMAIN instances THEN OK ELSE ErrStore
RetrieveBindingDetails(id) == IF id \in DOMAIN bindings THEN OK ELSE ErrStore
\* a record is stored under the id and it is not this one
IsInstanceConflict(id, details) == id \in DOMAIN instances /\ instances[id] # details
IsBindingConflict(id, details) == id \in DOMAIN bindings /\ bindings[id] # details

\* ---------------------------------------------------------- fingerprint
ServiceFingerPrint(name, volume) == [Name |-> name, Volume |-> volume]
\* encoding/json of a ServiceFingerPrint: the generic document
MarshalFingerprint(fp) == {<<"Name", fp.Name>>, <<"Volume", fp.Volume.VolumeId>>}
Field(doc, key) == IF \E m \in doc : m[1] = key
                   THEN (CHOOSE m \in doc : m[1] = key)[2] ELSE ""
UnmarshalFingerprint(doc) ==
    ServiceFingerPrint(Field(doc, "Name"), [VolumeId |-> Field(doc, "Volume")])
\* The store holds the fingerprint as the struct value Provision put there,
\* which is no *ServiceFingerPrint: the cast fails and the value goes
\* through its JSON form.
getFingerprint(rawObject) == UnmarshalFingerprint(MarshalFingerprint(rawObject))

ServiceInstance(serviceID, planID, org, space, fingerprint) ==
    [ServiceID |-> serviceID, PlanID |-> planID, OrganizationGUID |-> org,
     SpaceGUID |-> space, ServiceFingerPrint |-> fingerprint]

BindDetails(r) ==
    [AppGUID |-> r.appGUID, PlanID |-> r.planID, ServiceID |-> r.serviceID,
     RawParameters |-> r.raw]

\* ------------------------------------------------- parameter evaluation
HasKey(parameters, key) == \E m \in parameters : m[1] = key
readOnlyToMode(ro) == IF ro THEN "r" ELSE "rw"
\* evaluateMode gone wrong: a readonly of another type is taken as absent
evaluateModeDefaults(parameters) ==
    IF HasKey(parameters, "readonly") /\ Field(parameters, "readonly").t = "bool"
    THEN <<readOnlyToMode(Field(parameters, "readonly").b), OK>>
    ELSE <<"rw", OK>>

\* <<mode, error>>
evaluateMode(parameters) ==
    IF HasKey(parameters, "readonly")
    THEN LET ro == Field(parameters, "readonly")
         IN  IF ro.t = "bool" THEN <<readOnlyToMode(ro.b), OK>>
             ELSE <<"", ErrRawParamsInvalid>>
    ELSE <<"rw", OK>>

\* json.Unmarshal of the raw bind parameters into params: <<params, error>>
DecodeBindParameters(raw) ==
    IF raw.kind = "nil" THEN <<{}, OK>>
    ELSE IF raw.kind = "bad" THEN <<{}, ErrJSON>>
    ELSE <<raw.obj, OK>>

\* jsonpb.UnmarshalString of the raw provision parameters into a
\* csi.CreateVolumeRequest: <<configuration, error>>
UnmarshalConfiguration(raw) ==
    IF raw.valid
    THEN <<[Name |-> raw.name, VolumeCapabilities |-> raw.caps], OK>>
    ELSE <<[Name |-> "", VolumeCapabilities |-> 0], ErrJSON>>

NoBinding == [Mode |-> "", Driver |-> "", VolumeId |-> "", MountConfigId |-> ""]

\* ---------------------------------------------------------------- Init
Init ==
    /\ controllerProbed = FALSE
    /\ mutex = NoCall
    /\ instances = EmptyMap
    /\ bindings = EmptyMap
    /\ scope = EmptyMap
    /\ saved = TRUE
    /\ volumes = [s \in Registered |-> EmptyMap]
    /\ probed = [s \in Registered |-> 0]
    /\ pc = [c \in Calls |-> "idle"]
    /\ req = [c \in Calls |-> NoRequest]
    /\ vol = [c \in Calls |-> NoVolume]
    /\ res = [c \in Calls |-> OK]
    /\ ret = [c \in Calls |-> NoBinding]
    /\ log = [c \in Calls |-> NoLog]
    /\ started = 0
    /\ last = NoLast

\* ------------------------------------------------------------- control
\* Call c is over with e: it returns it to its caller.
Finish(c, e) ==
    /\ pc' = [pc EXCEPT ![c] = "done"]
    /\ res' = [res EXCEPT ![c] = e]

\* Call c goes on at p.
Goto(c, p) == pc' = [pc EXCEPT ![c] = p]

\* Where an operation goes on after probeController: Provision and
\* Deprovision work outside the lock first, Bind and Unbind take it at once.
AfterProbe(op) == IF op \in {Provision, Deprovision} THEN "main" ELSE "lock"

\* A request arrives, is served in the first free call context, and runs
\* probeController up to the probe RPC.
BeginOp(c, max, requests) ==
    /\ pc[c] = "idle"
    /\ \A d \in Calls : d < c => pc[d] # "idle"
    /\ started < max
    /\ started' = started + 1
    /\ UNCHANGED <<controllerProbed, mutex, instances, bindings, scope, saved,
                   volumes, probed, vol, ret, last>>
    /\ \E r \in requests :
        /\ req' = [req EXCEPT ![c] = r]
        /\ IF controllerProbed
           THEN /\ Goto(c, AfterProbe(r.op))
                /\ UNCHANGED <<res, log>>
           ELSE IF IdentityClient(r.serviceID) # OK
           THEN /\ Finish(c, IdentityClient(r.serviceID))
                /\ UNCHANGED log
           ELSE /\ Goto(c, "probing")
                /\ log' = [log EXCEPT ![c].probes = @ + 1]
                /\ UNCHANGED res

Begin(c) == BeginOp(c, MaxOps, ParallelRequests)

\* The caller has the result of call c; the context is free again.
Clear(c) ==
    /\ pc[c] = "done"
    /\ pc' = [pc EXCEPT ![c] = "idle"]
    /\ req' = [req EXCEPT ![c] = NoRequest]
    /\ vol' = [vol EXCEPT ![c] = NoVolume]
    /\ res' = [res EXCEPT ![c] = OK]
    /\ ret' = [ret EXCEPT ![c] = NoBinding]
    /\ log' = [log EXCEPT ![c] = NoLog]
    /\ UNCHANGED <<controllerProbed, mutex, instances, bindings, scope, saved,
                   volumes, probed, started>>

Return(c) == Clear(c) /\ UNCHANGED last

\* The probe is answered with success: probeController sets the flag.
ProbeOK(c) ==
    /\ pc[c] = "probing"
    /\ controllerProbed' = TRUE
    /\ probed' = [probed EXCEPT ![req[c].serviceID] = @ + 1]
    /\ Goto(c, AfterProbe(req[c].op))
    /\ UNCHANGED <<mutex, instances, bindings, scope, saved, volumes, req, vol,
                   res, ret, log, started, last>>

\* ProbeFail gone wrong: the flag is set although the probe failed
ProbeFailSetsFlag(c) ==
    /\ pc[c] = "probing"
    /\ Finish(c, ErrProbe)
    /\ controllerProbed' = TRUE
    /\ log' = [log EXCEPT ![c].faults = @ + 1]
    /\ UNCHANGED <<mutex, instances, bindings, scope, saved,
                   volumes, probed, req, vol, ret, started, last>>

\* The probe fails: probeController returns the error, and so does the call.
ProbeFail(c) ==
    /\ pc[c] = "probing"
    /\ Finish(c, ErrProbe)
    /\ log' = [log EXCEPT ![c].faults = @ + 1]
    /\ UNCHANGED <<controllerProbed, mutex, instances, bindings, scope, saved,
                   volumes, probed, req, vol, ret, started, last>>

\* Lock gone wrong: the call goes on although the mutex is held
LockNoWait(c) ==
    /\ pc[c] = "lock"
    /\ mutex' = c
    /\ Goto(c, "locked")
    /\ log' = [log EXCEPT ![c].locks = @ + 1]
    /\ UNCHANGED <<controllerProbed, instances, bindings, scope, saved, volumes,
                   probed, req, vol, res, ret, started, last>>

\* b.mutex.Lock()
Lock(c) ==
    /\ pc[c] = "lock"
    /\ mutex = NoCall
    /\ mutex' = c
    /\ Goto(c, "locked")
    /\ log' = [log EXCEPT ![c].locks = @ + 1]
    /\ UNCHANGED <<controllerProbed, instances, bindings, scope, saved, volumes,
                   probed, req, vol, res, ret, started, last>>

\* Save gone wrong: its error becomes e whatever e is
SaveOverwrites(c) ==
    /\ pc[c] = "save"
    /\ \E out \in {OK, ErrSave} :
        /\ saved' = (out = OK \/ saved)
        /\ res' = [res EXCEPT ![c] = out]
        /\ log' = [log EXCEPT ![c].saves = @ + 1,
                              ![c].faults = IF out = OK THEN @ ELSE @ + 1]
    /\ Goto(c, "unlock")
    /\ UNCHANGED <<controllerProbed, mutex, instances, bindings, scope, volumes,
                   probed, req, vol, ret, started, last>>

\* Save gone wrong: it is not deferred, and a failed section returns past it
SaveSkippedOnError(c) ==
    /\ pc[c] = "save"
    /\ IF res[c] # OK
       THEN UNCHANGED <<saved, res, log>>
       ELSE \E out \in {OK, ErrSave} :
            /\ saved' = (out = OK \/ saved)
            /\ res' = [res EXCEPT ![c] = out]
            /\ log' = [log EXCEPT ![c].saves = @ + 1,
                                  ![c].faults = IF out = OK THEN @ ELSE @ + 1]
    /\ Goto(c, "unlock")
    /\ UNCHANGED <<controllerProbed, mutex, instances, bindings, scope, volumes,
                   probed, req, vol, ret, started, last>>

\* The deferred b.store.Save: its error becomes e when e is nil.
Save(c) ==
    /\ pc[c] = "save"
    /\ \E out \in {OK, ErrSave} :
        /\ saved' = (out = OK \/ saved)
        /\ res' = [res EXCEPT ![c] = IF @ = OK THEN out ELSE @]
        /\ log' = [log EXCEPT ![c].saves = @ + 1,
                              ![c].faults = IF out = OK THEN @ ELSE @ + 1]
    /\ Goto(c, "unlock")
    /\ UNCHANGED <<controllerProbed, mutex, instances, bindings, scope, volumes,
                   probed, req, vol, ret, started, last>>

\* The deferred b.mutex.Unlock(), and the return.
Unlock(c) ==
    /\ pc[c] = "unlock"
    /\ mutex' = NoCall
    /\ Goto(c, "done")
    /\ UNCHANGED <<controllerProbed, instances, bindings, scope, saved, volumes,
                   probed, req, vol, res, ret, log, started, last>>

\* ------------------------------------------------------------ Provision
\* ProvisionError gone wrong: the controller is resolved before the
\* configuration is checked
ProvisionErrorControllerFirst(r) ==
    LET decoded == UnmarshalConfiguration(r.raw)
        configuration == decoded[1]
    IN  IF ControllerClient(r.serviceID) # OK THEN ControllerClient(r.serviceID)
        ELSE IF decoded[2] # OK THEN ErrRawParamsInvalid
        ELSE IF configuration.Name = "" THEN ErrNameRequired
        ELSE IF configuration.VolumeCapabilities = 0 THEN ErrCapsRequired
        ELSE OK

\* Provision from the decoding of the raw parameters to the CreateVolume
\* request: the first failing check returns its error.
ProvisionError(r) ==
    LET decoded == UnmarshalConfiguration(r.raw)
        configuration == decoded[1]
    IN  IF decoded[2] # OK THEN ErrRawParamsInvalid
        ELSE IF configuration.Name = "" THEN ErrNameRequired
        ELSE IF configuration.VolumeCapabilities = 0 THEN ErrCapsRequired
        ELSE ControllerClient(r.serviceID)

ProvisionRequest(c) ==
    /\ pc[c] = "main"
    /\ req[c].op = Provision
    /\ IF ProvisionError(req[c]) # OK
       THEN /\ Finish(c, ProvisionError(req[c]))
            /\ UNCHANGED log
       ELSE /\ Goto(c, "creating")
            /\ log' = [log EXCEPT ![c].rpcs = @ + 1,
                                  ![c].overlap = \E d \in Calls : pc[d] = "creating"]
            /\ UNCHANGED res
    /\ UNCHANGED <<controllerProbed, mutex, instances, bindings, scope, saved,
                   volumes, probed, req, vol, ret, started, last>>

\* The plugin answers CreateVolume: the volume of that name, made if there
\* is none yet.
CreateVolumeOK(c) ==
    /\ pc[c] = "creating"
    /\ LET s == req[c].serviceID
           name == UnmarshalConfiguration(req[c].raw)[1].Name
       IN  IF name \in DOMAIN volumes[s]
           THEN /\ vol' = [vol EXCEPT ![c] = [VolumeId |-> volumes[s][name]]]
                /\ UNCHANGED volumes
           ELSE \E id \in VolumeIds \ {volumes[s][n] : n \in DOMAIN volumes[s]} :
                /\ vol' = [vol EXCEPT ![c] = [VolumeId |-> id]]
                /\ volumes' = [volumes EXCEPT ![s] = Put(@, name, id)]
    /\ Goto(c, "lock")
    /\ UNCHANGED <<controllerProbed, mutex, instances, bindings, scope, saved,
                   probed, req, res, ret, log, started, last>>

\* CreateVolumeFail gone wrong: the broker issues the RPC once more
CreateVolumeFailRetries(c) ==
    /\ pc[c] = "creating"
    /\ IF log[c].rpcs < 2
       THEN /\ log' = [log EXCEPT ![c].rpcs = @ + 1, ![c].faults = @ + 1]
            /\ UNCHANGED <<pc, res>>
       ELSE /\ Finish(c, ErrCreateVolume)
            /\ log' = [log EXCEPT ![c].faults = @ + 1]
    /\ UNCHANGED <<controllerProbed, mutex, instances, bindings, scope, saved,
                   volumes, probed, req, vol, ret, started, last>>

CreateVolumeFail(c) ==
    /\ pc[c] = "creating"
    /\ Finish(c, ErrCreateVolume)
    /\ log' = [log EXCEPT ![c].faults = @ + 1]
    /\ UNCHANGED <<controllerProbed, mutex, instances, bindings, scope, saved,
                   volumes, probed, req, vol, ret, started, last>>

\* instanceConflicts gone wrong: any record under the id is a conflict
instanceConflictsAnyRecord(details, instanceID) == instanceID \in DOMAIN instances
\* instanceConflicts gone wrong: the details are compared with themselves
instanceConflictsNever(details, instanceID) ==
    instanceID \in DOMAIN instances /\ details # details

instanceConflicts(details, instanceID) == IsInstanceConflict(instanceID, details)

\* InstanceDetails gone wrong: the positional literal takes the space for
\* the organization and the organization for the space
InstanceDetailsSwapped(r, volInfo) ==
    ServiceInstance(r.serviceID, r.planID, r.spaceGUID, r.organizationGUID,
        ServiceFingerPrint(UnmarshalConfiguration(r.raw)[1].Name, volInfo))

\* The record Provision builds from its request and the plugin's volume.
InstanceDetails(r, volInfo) ==
    ServiceInstance(r.serviceID, r.planID, r.organizationGUID, r.spaceGUID,
        ServiceFingerPrint(UnmarshalConfiguration(r.raw)[1].Name, volInfo))

\* ProvisionLocked gone wrong: the record is written before the conflict
\* check
ProvisionLockedWritesFirst(c) ==
    /\ pc[c] = "locked"
    /\ req[c].op = Provision
    /\ LET instanceDetails == InstanceDetails(req[c], vol[c])
       IN  /\ instances' = Put(instances, req[c].instanceID, instanceDetails)
           /\ res' = [res EXCEPT ![c] =
                 IF instanceConflicts(instanceDetails, req[c].instanceID)
                 THEN ErrInstanceAlreadyExists ELSE OK]
           /\ UNCHANGED log
    /\ saved' = (saved /\ instances' = instances)
    /\ Goto(c, "save")
    /\ UNCHANGED <<controllerProbed, mutex, bindings, scope, volumes,
                   probed, req, vol, ret, started, last>>

\* Provision under the lock.
ProvisionLocked(c) ==
    /\ pc[c] = "locked"
    /\ req[c].op = Provision
    /\ LET instanceDetails == InstanceDetails(req[c], vol[c])
       IN  IF instanceConflicts(instanceDetails, req[c].instanceID)
           THEN /\ res' = [res EXCEPT ![c] = ErrInstanceAlreadyExists]
                /\ UNCHANGED <<instances, log>>
           ELSE \E err \in {OK, ErrStore} :
                IF err # OK
                THEN /\ res' = [res EXCEPT ![c] = ErrStoreInstance]
                     /\ log' = [log EXCEPT ![c].faults = @ + 1]
                     /\ UNCHANGED instances
                ELSE /\ instances' = Put(instances, req[c].instanceID, instanceDetails)
                     /\ res' = [res EXCEPT ![c] = OK]
                     /\ UNCHANGED log
    /\ saved' = (saved /\ instances' = instances)
    /\ Goto(c, "save")
    /\ UNCHANGED <<controllerProbed, mutex, bindings, scope, volumes,
                   probed, req, vol, ret, started, last>>

\* ---------------------------------------------------------- Deprovision
\* DeprovisionError gone wrong: the store's own error is handed on
DeprovisionErrorFromStore(r) ==
    IF r.instanceID = "" THEN ErrInstanceIDRequired
    ELSE IF r.planID = "" THEN ErrPlanIDRequired
    ELSE IF r.serviceID = "" THEN ErrServiceIDRequired
    ELSE IF RetrieveInstanceDetails(r.instanceID) # OK
         THEN RetrieveInstanceDetails(r.instanceID)
    ELSE ControllerClient(r.serviceID)

\* Deprovision from its checks to the DeleteVolume request.
DeprovisionError(r) ==
    IF r.instanceID = "" THEN ErrInstanceIDRequired
    ELSE IF r.planID = "" THEN ErrPlanIDRequired
    ELSE IF r.serviceID = "" THEN ErrServiceIDRequired
    ELSE IF RetrieveInstanceDetails(r.instanceID) # OK THEN ErrInstanceDoesNotExist
    ELSE ControllerClient(r.serviceID)

DeprovisionRequest(c) ==
    /\ pc[c] = "main"
    /\ req[c].op = Deprovision
    /\ IF DeprovisionError(req[c]) # OK
       THEN /\ Finish(c, DeprovisionError(req[c]))
            /\ UNCHANGED <<vol, log>>
       ELSE /\ Goto(c, "deleting")
            /\ vol' = [vol EXCEPT ![c] =
                  getFingerprint(instances[req[c].instanceID].ServiceFingerPrint).Volume]
            /\ log' = [log EXCEPT ![c].rpcs = @ + 1,
                                  ![c].overlap = \E d \in Calls : pc[d] = "deleting"]
            /\ UNCHANGED res
    /\ UNCHANGED <<controllerProbed, mutex, instances, bindings, scope, saved,
                   volumes, probed, req, ret, started, last>>

\* The plugin answers DeleteVolume: the volume of that id is gone.
DeleteVolumeOK(c) ==
    /\ pc[c] = "deleting"
    /\ LET s == req[c].serviceID
       IN  volumes' = [volumes EXCEPT ![s] =
               [n \in {m \in DOMAIN @ : @[m] # vol[c].VolumeId} |-> @[n]]]
    /\ Goto(c, "lock")
    /\ UNCHANGED <<controllerProbed, mutex, instances, bindings, scope, saved,
                   probed, req, vol, res, ret, log, started, last>>

DeleteVolumeFail(c) ==
    /\ pc[c] = "deleting"
    /\ Finish(c, ErrDeleteVolume)
    /\ log' = [log EXCEPT ![c].faults = @ + 1]
    /\ UNCHANGED <<controllerProbed, mutex, instances, bindings, scope, saved,
                   volumes, probed, req, vol, ret, started, last>>

\* Deprovision under the lock.
DeprovisionLocked(c) ==
    /\ pc[c] = "locked"
    /\ req[c].op = Deprovision
    /\ \E err \in {OK, ErrStore} :
        IF err # OK
        THEN /\ res' = [res EXCEPT ![c] = err]
             /\ log' = [log EXCEPT ![c].faults = @ + 1]
             /\ UNCHANGED instances
        ELSE /\ instances' = Remove(instances, req[c].instanceID)
             /\ res' = [res EXCEPT ![c] = OK]
             /\ UNCHANGED log
    /\ saved' = (saved /\ instances' = instances)
    /\ Goto(c, "save")
    /\ UNCHANGED <<controllerProbed, mutex, bindings, scope, volumes,
                   probed, req, vol, ret, started, last>>

\* ----------------------------------------------------------------- Bind
\* bindingConflicts gone wrong: any record under the id is a conflict
bindingConflictsAnyRecord(bindingID, details) == bindingID \in DOMAIN bindings

bindingConflicts(bindingID, details) == IsBindingConflict(bindingID, details)

\* Bind under the lock, up to the conflict check: the first failing check.
BindError(r) ==
    IF RetrieveInstanceDetails(r.instanceID) # OK THEN ErrInstanceDoesNotExist
    ELSE IF r.appGUID = "" THEN ErrAppGuidNotProvided
    ELSE IF DecodeBindParameters(r.raw)[2] # OK THEN ErrJSON
    ELSE IF evaluateMode(DecodeBindParameters(r.raw)[1])[2] # OK
         THEN evaluateMode(DecodeBindParameters(r.raw)[1])[2]
    ELSE IF bindingConflicts(r.bindingID, BindDetails(r)) THEN ErrBindingAlreadyExists
    ELSE OK

\* The binding Bind returns.
Binding(r) ==
    [Mode |-> evaluateMode(DecodeBindParameters(r.raw)[1])[1],
     Driver |-> r.serviceID,
     VolumeId |-> r.instanceID,
     MountConfigId |->
        getFingerprint(instances[r.instanceID].ServiceFingerPrint).Volume.VolumeId]

BindLocked(c) ==
    /\ pc[c] = "locked"
    /\ req[c].op = Bind
    /\ IF BindError(req[c]) # OK
       THEN /\ res' = [res EXCEPT ![c] = BindError(req[c])]
            /\ UNCHANGED <<bindings, scope, ret, log>>
       ELSE \E err \in {OK, ErrStore} :
            IF err # OK
            THEN /\ res' = [res EXCEPT ![c] = err]
                 /\ log' = [log EXCEPT ![c].faults = @ + 1]
                 /\ UNCHANGED <<bindings, scope, ret>>
            ELSE /\ bindings' = Put(bindings, req[c].bindingID, BindDetails(req[c]))
                 /\ scope' = Put(scope, req[c].bindingID, req[c].instanceID)
                 /\ UNCHANGED log
                 /\ IF DriverName(req[c].serviceID) # OK
                    THEN /\ res' = [res EXCEPT ![c] = DriverName(req[c].serviceID)]
                         /\ UNCHANGED ret
                    ELSE /\ res' = [res EXCEPT ![c] = OK]
                         /\ ret' = [ret EXCEPT ![c] = Binding(req[c])]
    /\ saved' = (saved /\ bindings' = bindings)
    /\ Goto(c, "save")
    /\ UNCHANGED <<controllerProbed, mutex, instances, volumes,
                   probed, req, vol, started, last>>

\* --------------------------------------------------------------- Unbind
\* UnbindError gone wrong: the binding is not looked up
UnbindErrorNoBindingLookup(r) ==
    IF RetrieveInstanceDetails(r.instanceID) # OK THEN ErrInstanceDoesNotExist
    ELSE OK

UnbindError(r) ==
    IF RetrieveInstanceDetails(r.instanceID) # OK THEN ErrInstanceDoesNotExist
    ELSE IF RetrieveBindingDetails(r.bindingID) # OK THEN ErrBindingDoesNotExist
    ELSE OK

UnbindLocked(c) ==
    /\ pc[c] = "locked"
    /\ req[c].op = Unbind
    /\ IF UnbindError(req[c]) # OK
       THEN /\ res' = [res EXCEPT ![c] = UnbindError(req[c])]
            /\ UNCHANGED <<bindings, scope, log>>
       ELSE \E err \in {OK, ErrStore} :
            IF err # OK
            THEN /\ res' = [res EXCEPT ![c] = err]
                 /\ log' = [log EXCEPT ![c].faults = @ + 1]
                 /\ UNCHANGED <<bindings, scope>>
            ELSE /\ bindings' = Remove(bindings, req[c].bindingID)
                 /\ scope' = Remove(scope, req[c].bindingID)
                 /\ res' = [res EXCEPT ![c] = OK]
                 /\ UNCHANGED log
    /\ saved' = (saved /\ bindings' = bindings)
    /\ Goto(c, "save")
    /\ UNCHANGED <<controllerProbed, mutex, instances, volumes,
                   probed, req, vol, ret, started, last>>

\* ----------------------------------------------------------------- Next
Step(c) ==
    \/ ProbeOK(c)
    \/ ProbeFail(c)
    \/ ProvisionRequest(c)
    \/ CreateVolumeOK(c)
    \/ CreateVolumeFail(c)
    \/ DeprovisionRequest(c)
    \/ DeleteVolumeOK(c)
    \/ DeleteVolumeFail(c)
    \/ Lock(c)
    \/ ProvisionLocked(c)
    \/ DeprovisionLocked(c)
    \/ BindLocked(c)
    \/ UnbindLocked(c)
    \/ Save(c)
    \/ Unlock(c)

Next == \E c \in Calls : Begin(c) \/ Step(c) \/ Return(c)

Spec == Init /\ [][Next]_vars

\* The calls one after the other: a request arrives only when no call is
\* under way, and the call that returned last is remembered.
BeginAlone(c) == (\A d \in Calls : pc[d] = "idle") /\ BeginOp(c, MaxSeqOps, Requests)

ReturnAlone(c) ==
    /\ Clear(c)
    /\ last' = [req |-> req[c], res |-> res[c], log |-> log[c]]

NextAlone == \E c \in Calls : BeginAlone(c) \/ Step(c) \/ ReturnAlone(c)

SeqSpec == Init /\ [][NextAlone]_vars

\* ================================================================ claims
Idle == \A c \in Calls : pc[c] = "idle"
Name(r) == UnmarshalConfiguration(r.raw)[1].Name

\* C1: when a Provision has succeeded and the very next call is a Provision
\* of the same instance id with the same details and the same raw
\* parameters, that call succeeds too (the plugin and the store answering
\* it without failure), and the store holds one record under the instance
\* id, with the details and the name of the request.
C1_ProvisionTwice ==
    \A c \in Calls :
        (/\ pc[c] = "done"
         /\ req[c].op = Provision
         /\ last.req = req[c]
         /\ last.res = OK)
        => /\ res[c] \in {OK, ErrCreateVolume, ErrStoreInstance, ErrSave}
           /\ log[c].faults = 0 => res[c] = OK
           /\ req[c].instanceID \in DOMAIN instances
           /\ LET stored == instances[req[c].instanceID]
              IN  /\ stored.ServiceID = req[c].serviceID
                  /\ stored.PlanID = req[c].planID
                  /\ stored.OrganizationGUID = req[c].organizationGUID
                  /\ stored.SpaceGUID = req[c].spaceGUID
                  /\ stored.ServiceFingerPrint.Name = Name(req[c])
                  /\ res[c] = OK => stored.ServiceFingerPrint.Volume = vol[c]

\* C1 witness: the second of two identical Provisions has succeeded.
C1_Witness ==
    \E c \in Calls :
        /\ pc[c] = "done"
        /\ req[c].op = Provision
        /\ last.req = req[c]
        /\ last.res = OK
        /\ res[c] = OK
        /\ DOMAIN instances = {req[c].instanceID}

\* The four details of a stored record are not those of the request.
DetailsDiffer(stored, r) ==
    \/ stored.ServiceID # r.serviceID
    \/ stored.PlanID # r.planID
    \/ stored.OrganizationGUID # r.organizationGUID
    \/ stored.SpaceGUID # r.spaceGUID

\* C2: when a Provision comes to its conflict check while the store holds,
\* under its instance id, a record with another service, plan, organization
\* or space, it fails with "instance already exists" and the records are
\* what they were.
C2_ConflictKeepsRecord ==
    [][\A c \in Calls :
        (/\ pc[c] = "locked"
         /\ pc'[c] = "save"
         /\ req[c].op = Provision
         /\ req[c].instanceID \in DOMAIN instances
         /\ DetailsDiffer(instances[req[c].instanceID], req[c]))
        => /\ res'[c] = ErrInstanceAlreadyExists
           /\ instances' = instances
           /\ bindings' = bindings]_vars

\* C2 witness: a Provision with another plan has failed on the conflict and
\* the record of the first plan is still there.
C2_Witness ==
    \E c \in Calls :
        /\ pc[c] = "save"
        /\ req[c].op = Provision
        /\ res[c] = ErrInstanceAlreadyExists
        /\ req[c].instanceID \in DOMAIN instances
        /\ instances[req[c].instanceID].PlanID # req[c].planID

\* A Deprovision with instance id, plan id and service id, whose instance
\* has no record, and which has not come to its locked section.
DeprovisionOfNoRecord(c) ==
    /\ req[c].op = Deprovision
    /\ req[c].instanceID # ""
    /\ req[c].planID # ""
    /\ req[c].serviceID # ""
    /\ req[c].instanceID \notin DOMAIN instances
    /\ log[c].locks = 0

StepOf(c, p, q) == pc[c] = p /\ pc'[c] = q

\* C4: an Unbind that finds the instance but no record under its binding id
\* fails with "binding does not exist"; the Unbind that follows a successful
\* Bind of the binding id finds the record, removes it and succeeds (unless
\* the store fails to delete); the Unbind that follows a successful Unbind
\* of the binding id fails with "binding does not exist".
C4_UnbindTwice ==
    [][\A c \in Calls :
        (/\ StepOf(c, "locked", "save")
         /\ req[c].op = Unbind
         /\ req[c].instanceID \in DOMAIN instances)
        => /\ req[c].bindingID \notin DOMAIN bindings
              => res'[c] = ErrBindingDoesNotExist /\ bindings' = bindings
           /\ (/\ last.req.op = Bind
               /\ last.res = OK
               /\ last.req.bindingID = req[c].bindingID)
              => \/ /\ res'[c] = OK
                    /\ bindings' = Remove(bindings, req[c].bindingID)
                    /\ req[c].bindingID \in DOMAIN bindings
                    /\ req[c].bindingID \notin DOMAIN bindings'
                 \/ /\ res'[c] = ErrStore
                    /\ log'[c].faults = 1
                    /\ bindings' = bindings
           /\ (/\ last.req.op = Unbind
               /\ last.res = OK
               /\ last.req.bindingID = req[c].bindingID)
              => res'[c] = ErrBindingDoesNotExist]_vars

\* C4 witness: the second Unbind of a binding has failed.
C4_Witness ==
    \E c \in Calls :
        /\ pc[c] = "save"
        /\ req[c].op = Unbind
        /\ req[c].instanceID \in DOMAIN instances
        /\ last.req.op = Unbind
        /\ last.res = OK
        /\ last.req.bindingID = req[c].bindingID
        /\ res[c] = ErrBindingDoesNotExist

\* The record of call c's Provision is in the store as the call made it.
HoldsOwnRecord(c) ==
    /\ req[c].instanceID \in DOMAIN instances
    /\ LET stored == instances[req[c].instanceID]
       IN  /\ stored.ServiceID = req[c].serviceID
           /\ stored.PlanID = req[c].planID
           /\ stored.OrganizationGUID = req[c].organizationGUID
           /\ stored.SpaceGUID = req[c].spaceGUID
           /\ stored.ServiceFingerPrint.Name = Name(req[c])
           /\ stored.ServiceFingerPrint.Volume = vol[c]
           /\ vol[c] # NoVolume

\* Calls c and d are the two first calls of the run, both over: Provisions
\* of two instance ids on one registered service, answered without failure
\* by the plugin and the store.
TwoProvisions(c, d) ==
    /\ c # d
    /\ started = 2
    /\ pc[c] = "done" /\ pc[d] = "done"
    /\ req[c].op = Provision /\ req[d].op = Provision
    /\ req[c].instanceID # req[d].instanceID
    /\ req[c].serviceID = req[d].serviceID
    /\ req[c].serviceID \in Registered
    /\ log[c].faults = 0 /\ log[d].faults = 0

\* C5: two parallel Provisions of two instance ids on one service both
\* succeed under every interleaving, and the store then holds two records,
\* each with the details of its own call and the volume the plugin returned
\* to that call.
C5_ParallelProvision ==
    \A c, d \in Calls :
        TwoProvisions(c, d)
        => /\ res[c] = OK /\ res[d] = OK
           /\ DOMAIN instances = {req[c].instanceID, req[d].instanceID}
           /\ HoldsOwnRecord(c) /\ HoldsOwnRecord(d)

\* C5 witness: both have succeeded, and one issued its CreateVolume while
\* the CreateVolume of the other was in flight.
C5_Witness ==
    \E c, d \in Calls :
        /\ TwoProvisions(c, d)
        /\ res[c] = OK /\ res[d] = OK
        /\ log[c].overlap
        /\ Cardinality(DOMAIN instances) = 2

InSection(c) == pc[c] \in {"locked", "save", "unlock"}

\* C6: at most one call is in its mutation-and-persist section, and it is
\* the call that holds the mutex; every step that changes the instance or
\* the binding records, and every Save, is a step of the call that holds
\* the mutex.
C6_SingleWriter ==
    [][/\ Cardinality({c \in Calls : InSection(c)'}) <= 1
       /\ \A c \in Calls : InSection(c)' => mutex' = c
       /\ (instances' # instances \/ bindings' # bindings)
          => \E c \in Calls : mutex = c /\ mutex' = c /\ StepOf(c, "locked", "save")
       /\ \A c \in Calls :
            log'[c].saves > log[c].saves
            => mutex = c /\ mutex' = c /\ StepOf(c, "save", "unlock")]_vars

\* C6 witness: one call saves under the lock while the other waits for it.
C6_Witness ==
    \E c, d \in Calls :
        /\ pc[c] = "save"
        /\ mutex = c
        /\ pc[d] = "lock"

\* Call c is past probeController.
PastProbe(c) ==
    pc[c] \in {"main", "creating", "deleting", "lock", "locked", "save", "unlock"}

\* C7 as stated: for each service the identity probe succeeds once and no
\* more, and every call on the service that is past probeController comes
\* after a successful probe of that service.
C7_ProbeOncePerService ==
    /\ \A s \in Registered : probed[s] <= 1
    /\ \A c \in Calls :
        PastProbe(c) /\ req[c].serviceID \in Registered
        => probed[req[c].serviceID] = 1

\* C8 as stated: while a CreateVolume or a DeleteVolume is in flight to the
\* controller of a service, a probe of that service has succeeded before.
C8_ProbedBeforeVolumeRPC ==
    \A c \in Calls :
        pc[c] \in {"creating", "deleting"} => probed[req[c].serviceID] >= 1

\* The step in which call c returns from probeController with an error: the
\* identity client is not found, or the probe fails.
ProbeErrorStep(c) == StepOf(c, "idle", "done") \/ StepOf(c, "probing", "done")

\* C9: the step in which probeController fails ends the call with that
\* error; it leaves the flag, the mutex, the records, the saved copy and the
\* plugin's volumes as they were, and the call has issued no volume RPC,
\* taken no lock and called no Save.  When the call before failed on the
\* probe, the flag is unset as a call arrives, and a call on a registered
\* service issues the probe.
C9_ProbeFailure ==
    [][\A c \in Calls :
        /\ ProbeErrorStep(c)
           => /\ res'[c] \in {ErrProbe, ErrUnknownService}
              /\ res'[c] = ErrProbe <=> pc[c] = "probing"
              /\ UNCHANGED <<controllerProbed, mutex, instances, bindings,
                             saved, volumes, probed>>
              /\ log'[c].rpcs = 0 /\ log'[c].locks = 0 /\ log'[c].saves = 0
        /\ (pc[c] = "idle" /\ pc'[c] # "idle" /\ last.res = ErrProbe)
           => /\ ~controllerProbed
              /\ req'[c].serviceID \in Registered
                 => pc'[c] = "probing" /\ log'[c].probes = 1]_vars

\* C9 witness: the call before failed on the probe, and this call's probe
\* is in flight.
C9_Witness ==
    \E c \in Calls :
        /\ last.res = ErrProbe
        /\ last.log.rpcs = 0
        /\ pc[c] = "probing"
        /\ ~controllerProbed

\* What call c's locked section does to the records when it succeeds.
EffectInMemory(c) ==
    IF req[c].op = Provision
    THEN /\ req[c].instanceID \in DOMAIN instances
         /\ instances[req[c].instanceID] = InstanceDetails(req[c], vol[c])
    ELSE IF req[c].op = Deprovision
    THEN req[c].instanceID \notin DOMAIN instances
    ELSE IF req[c].op = Bind
    THEN /\ req[c].bindingID \in DOMAIN bindings
         /\ bindings[req[c].bindingID] = BindDetails(req[c])
    ELSE req[c].bindingID \notin DOMAIN bindings

\* C10: the Save step leaves the records as the locked section made them;
\* when the locked section succeeded and Save fails, e becomes the Save
\* error and the record change stays in memory; when the locked section
\* failed, e stays its error whatever Save answers; and the call returns e.
C10_SaveError ==
    [][\A c \in Calls :
        /\ StepOf(c, "save", "unlock")
           => /\ instances' = instances /\ bindings' = bindings
              /\ res[c] # OK => res'[c] = res[c]
              /\ res[c] = OK =>
                    /\ EffectInMemory(c)'
                    /\ res'[c] = IF log'[c].faults > log[c].faults THEN ErrSave ELSE OK
        /\ StepOf(c, "unlock", "done")
           => /\ res'[c] = res[c]
              /\ instances' = instances /\ bindings' = bindings]_vars

\* C10 witness: a Provision is about to return the Save error, and its
\* record is in the store.
C10_Witness ==
    \E c \in Calls :
        /\ pc[c] = "unlock"
        /\ req[c].op = Provision
        /\ res[c] = ErrSave
        /\ EffectInMemory(c)

\* C11: a call that has not taken the lock has called no Save; a call in
\* its locked section holds the mutex, has taken it once and has not saved
\* yet; a call about to release the lock has called Save exactly once,
\* whatever the result of the section; a call that is over has called Save
\* as many times as it took the lock, once or never.
C11_SaveOncePerLock ==
    \A c \in Calls :
        /\ pc[c] \in {"idle", "probing", "main", "creating", "deleting", "lock"}
           => log[c].locks = 0 /\ log[c].saves = 0
        /\ pc[c] \in {"locked", "save"}
           => log[c].locks = 1 /\ log[c].saves = 0 /\ mutex = c
        /\ pc[c] = "unlock"
           => log[c].locks = 1 /\ log[c].saves = 1 /\ mutex = c
        /\ pc[c] = "done"
           => log[c].locks <= 1 /\ log[c].saves = log[c].locks

\* C11 witness: one call, whose locked section failed, is about to release
\* the lock after its one Save; the other call has returned without taking
\* the lock and without a Save.
C11_Witness ==
    \E c, d \in Calls :
        /\ pc[c] = "unlock"
        /\ res[c] \notin {OK, ErrSave}
        /\ log[c].saves = 1
        /\ pc[d] = "done"
        /\ log[d].locks = 0
        /\ log[d].saves = 0

\* C12 as stated: a Provision that fails with "instance already exists"
\* has called no Save.
C12_ConflictNoSave ==
    \A c \in Calls :
        (req[c].op = Provision /\ res[c] = ErrInstanceAlreadyExists)
        => log[c].saves = 0

\* C12 amended: from the conflict check to the release of the lock, a
\* Provision that fails with "instance already exists" leaves the instance
\* and the binding records as they were, and it has called Save exactly
\* once when it releases the lock.
C12_ConflictNoUpsert ==
    [][\A c \in Calls :
        (/\ req[c].op = Provision
         /\ pc[c] \in {"locked", "save", "unlock"}
         /\ res'[c] = ErrInstanceAlreadyExists)
        => /\ instances' = instances
           /\ bindings' = bindings
           /\ pc'[c] = "done" => log'[c].saves = 1 /\ log'[c].locks = 1]_vars

\* C12 witness: a Provision has returned "instance already exists" after
\* one Save, and the record under its id is not the one it built.
C12_Witness ==
    \E c \in Calls :
        /\ pc[c] = "done"
        /\ req[c].op = Provision
        /\ res[c] = ErrInstanceAlreadyExists
        /\ log[c].saves = 1
        /\ req[c].instanceID \in DOMAIN instances
        /\ instances[req[c].instanceID] # InstanceDetails(req[c], vol[c])

\* C13: while a CreateVolume or DeleteVolume is in flight the call has
\* issued it once; the step in which the RPC fails ends the call with the
\* RPC's error, after one RPC, no lock and no Save, and leaves the mutex,
\* the instance and binding records and the saved copy as they were.
C13_VolumeRPCFailure ==
    [][\A c \in Calls :
        /\ pc'[c] \in {"creating", "deleting"} => log'[c].rpcs = 1
        /\ (StepOf(c, "creating", "done") \/ StepOf(c, "deleting", "done"))
           => /\ res'[c] = IF pc[c] = "creating" THEN ErrCreateVolume
                                                ELSE ErrDeleteVolume
              /\ log'[c].rpcs = 1
              /\ log'[c].locks = 0
              /\ log'[c].saves = 0
              /\ UNCHANGED <<mutex, instances, bindings, saved>>]_vars

\* C13 witness: a Deprovision has returned the DeleteVolume error, and the
\* record of its instance is still in the store.
C13_Witness ==
    \E c \in Calls :
        /\ pc[c] = "done"
        /\ req[c].op = Deprovision
        /\ res[c] = ErrDeleteVolume
        /\ log[c].rpcs = 1
        /\ log[c].locks = 0
        /\ req[c].instanceID \in DOMAIN instances

\* The step in which a Bind, under the lock, finds its instance and has an
\* application id.
BindChecked(c) ==
    /\ StepOf(c, "locked", "save")
    /\ req[c].op = Bind
    /\ req[c].instanceID \in DOMAIN instances
    /\ req[c].appGUID # ""

\* The binding id of the request has a record with other details.
StoredDiffers(r) ==
    r.bindingID \in DOMAIN bindings /\ bindings[r.bindingID] # BindDetails(r)

\* The raw bind parameters decode, with no readonly key or a boolean one.
ParametersValid(r) ==
    /\ DecodeBindParameters(r.raw)[2] = OK
    /\ evaluateMode(DecodeBindParameters(r.raw)[1])[2] = OK

ReadOnly(v) == JObject({<<"readonly", v>>})

\* C15: with an instance record and an application id, a Bind with
\* readonly true that succeeds returns mode "r", one with readonly false or
\* with no parameters that succeeds returns mode "rw", and neither fails
\* with the invalid-parameters error; a Bind whose readonly is a string
\* fails with the invalid-parameters error and leaves the binding records
\* as they were.
C15_ReadOnlyMode ==
    [][\A c \in Calls :
        BindChecked(c)
        => /\ req[c].raw = ReadOnly(JBool(TRUE))
              => /\ res'[c] # ErrRawParamsInvalid
                 /\ res'[c] = OK => ret'[c].Mode = "r"
           /\ req[c].raw \in {ReadOnly(JBool(FALSE)), NoParams}
              => /\ res'[c] # ErrRawParamsInvalid
                 /\ res'[c] = OK => ret'[c].Mode = "rw"
           /\ req[c].raw = ReadOnly(JString("yes"))
              => /\ res'[c] = ErrRawParamsInvalid
                 /\ bindings' = bindings]_vars

\* C15 witness: the Bind before, with readonly "yes", failed with the
\* invalid-parameters error, and this Bind with readonly true has succeeded
\* with mode "r".
C15_Witness ==
    \E c \in Calls :
        /\ pc[c] = "done"
        /\ req[c].op = Bind
        /\ req[c].raw = ReadOnly(JBool(TRUE))
        /\ res[c] = OK
        /\ ret[c].Mode = "r"
        /\ last.req.op = Bind
        /\ last.req.raw = ReadOnly(JString("yes"))
        /\ last.res = ErrRawParamsInvalid
        /\ last.log.locks = 1

\* C16 as stated: every binding record was bound under an instance id that
\* has an instance record.
C16_BindingsScoped ==
    \A b \in DOMAIN bindings : scope[b] \in DOMAIN instances

\* A Provision whose raw configuration does not decode, or decodes with no
\* name or with no volume capability.
InvalidConfiguration(r) ==
    /\ r.op = Provision
    /\ ~r.raw.valid \/ r.raw.name = "" \/ r.raw.caps = 0

\* C17: a Provision with such a configuration is never past its checks: it
\* has issued no CreateVolume, taken no lock and called no Save; the step
\* in which it leaves its checks ends it with the invalid-parameters error
\* of its configuration, whether its service has a controller or not, and
\* leaves the records, the saved copy and the plugin's volumes as they were.
C17_InvalidConfiguration ==
    [][\A c \in Calls :
        InvalidConfiguration(req'[c])
        => /\ pc'[c] \in {"probing", "main", "done"}
           /\ log'[c].rpcs = 0 /\ log'[c].locks = 0 /\ log'[c].saves = 0
           /\ StepOf(c, "main", "done")
              => /\ res'[c] = IF ~req[c].raw.valid THEN ErrRawParamsInvalid
                              ELSE IF req[c].raw.name = "" THEN ErrNameRequired
                              ELSE ErrCapsRequired
                 /\ UNCHANGED <<mutex, instances, bindings, saved, volumes>>]_vars

\* C17 witness: a Provision with no name, on a service that is not
\* registered, has got past the probe and failed on the name.
C17_Witness ==
    \E c \in Calls :
        /\ pc[c] = "done"
        /\ InvalidConfiguration(req[c])
        /\ req[c].serviceID \notin Registered
        /\ res[c] = ErrNameRequired
        /\ log[c].rpcs = 0

\* Calls c and d are two Deprovisions of one instance id that have each
\* issued DeleteVolume for the same volume id.
SameDeleteVolume(c, d) ==
    /\ c # d
    /\ req[c].op = Deprovision /\ req[d].op = Deprovision
    /\ req[c].instanceID = req[d].instanceID
    /\ log[c].rpcs = 1 /\ log[d].rpcs = 1
    /\ vol[c] = vol[d]

\* C18 as stated: of two parallel Deprovisions of one instance id, at most
\* one issues DeleteVolume for the volume of the instance record before the
\* record is deleted, and at most one returns success.
C18_DeleteVolumeOnce ==
    \A c, d \in Calls :
        SameDeleteVolume(c, d)
        => /\ ~(pc[c] \in {"deleting", "lock"} /\ pc[d] \in {"deleting", "lock"})
           /\ ~(pc[c] = "done" /\ pc[d] = "done" /\ res[c] = OK /\ res[d] = OK)

\* The volume id is in the fingerprint of an instance record of service s.
Referenced(s, id) ==
    \E i \in DOMAIN instances :
        /\ instances[i].ServiceID = s
        /\ getFingerprint(instances[i].ServiceFingerPrint).Volume.VolumeId = id

\* C19 as stated: when every call has returned, each volume a plugin holds
\* (created and not deleted) is in the fingerprint of an instance record of
\* its service.
C19_NoOrphanVolume ==
    Idle => \A s \in Registered :
                \A n \in DOMAIN volumes[s] : Referenced(s, volumes[s][n])

\* C20 as stated: the locked section of a Bind that ends with an error
\* leaves the binding records as they were.
C20_FailedBindKeepsBindings ==
    [][\A c \in Calls :
        (/\ StepOf(c, "locked", "save")
         /\ req[c].op = Bind
         /\ res'[c] # OK)
        => bindings' = bindings]_vars

====
